---- MODULE Spec2Model ----
(***************************************************************************)
(* Model of src/main.py: credential validation, the retrying login around  *)
(* the external verifier (auth.login_user) and the analytics events handed *)
(* to the external sink (metrics.track_event).                             *)
(*                                                                         *)
(* Strings are sequences of one-character strings.  Time is counted in     *)
(* milliseconds.  `trace` records, in program order, every call that       *)
(* leaves the program: events handed to the sink, verifier invocations,    *)
(* sleeps and printed lines.                                               *)
(***************************************************************************)
EXTENDS Integers, Sequences, FiniteSets, TLC

\* ------------------------------------------------------------------ bounds
\* longest raw input string enumerated for the pure functions
MaxLen == 2
\* largest latency (ms) of one verifier call
MaxLatencyMs == 1
\* largest extra time (ms) a sleep may take beyond the requested duration
MaxOversleepMs == 1

\* --------------------------------------------------------------- constants
LOGIN_MAX_ATTEMPTS == 3
\* LOGIN_RETRY_BACKOFF_SECONDS = 0.25, in milliseconds
LOGIN_RETRY_BACKOFF_MS == 250
LOGIN_RETRYABLE_ERRORS == {"TimeoutError", "ConnectionError"}

\* ----------------------------------------------------------------- strings
Whitespace == {" ", "\t"}
Alphabet == {" ", "\t", "a", "B"}

RECURSIVE StringsUpTo(_)
StringsUpTo(n) ==
    IF n = 0 THEN {<<>>}
    ELSE LET shorter == StringsUpTo(n - 1)
         IN  shorter \cup {Append(s, c) : s \in shorter, c \in Alphabet}

\* str.swapcase() on one character
SwapCaseChar(c) ==
    CASE c = "A" -> "a"
      [] c = "B" -> "b"
      [] c = "a" -> "A"
      [] c = "b" -> "B"
      [] OTHER -> c

LowerChar(c) ==
    CASE c = "A" -> "a"
      [] c = "B" -> "b"
      [] OTHER -> c

\* str.lower()
Lower(s) == [i \in 1..Len(s) |-> LowerChar(s[i])]

RECURSIVE LStrip(_)
LStrip(s) ==
    IF s # <<>> /\ Head(s) \in Whitespace THEN LStrip(Tail(s)) ELSE s

RECURSIVE RStrip(_)
RStrip(s) ==
    IF s # <<>> /\ s[Len(s)] \in Whitespace
    THEN RStrip(SubSeq(s, 1, Len(s) - 1))
    ELSE s

\* str.strip()
Strip(s) == RStrip(LStrip(s))

\* ------------------------------------------------------- raw credentials
\* One field of the raw mapping: missing key, None, or a string.
Absent == [kind |-> "absent", s |-> <<>>]
None == [kind |-> "none", s |-> <<>>]
Str(s) == [kind |-> "str", s |-> s]

FieldValues == {Absent, None} \cup {Str(s) : s \in StringsUpTo(MaxLen)}
RawCredentials == [username : FieldValues, password : FieldValues]

\* (d.get(key) or ""): a missing key and None both give the empty string
OrEmpty(v) == IF v.kind = "str" THEN v.s ELSE <<>>

\* ------------------------------------------------------------- exceptions
NoError == [type |-> "none", msg |-> "", origin |-> "none", at |-> 0]
Error(type, msg, origin, at) ==
    [type |-> type, msg |-> msg, origin |-> origin, at |-> at]

UsernameRequired == "Username is required."
PasswordRequired == "Password is required."

\* isinstance(error, OSError): the base class of the retryable types, which
\* PermissionError derives from as well
IsOSError(e) ==
    e.type \in {"TimeoutError", "ConnectionError", "PermissionError"}

\* isinstance(error, LOGIN_RETRYABLE_ERRORS)
IsRetryable(e) == e.type \in LOGIN_RETRYABLE_ERRORS

\* --------------------------------------------------------- pure functions
\* normalize_username without .strip()
normalize_username_unstripped(username) == Lower(OrEmpty(username))

normalize_username(username) == Lower(Strip(OrEmpty(username)))

NoCredentials == [username |-> <<>>, password |-> <<>>]

\* validate_credentials with the two checks in the other order
validate_credentials_password_first(user_credentials) ==
    LET username == normalize_username(user_credentials.username)
        password == Strip(OrEmpty(user_credentials.password))
    IN  IF password = <<>>
        THEN [ok |-> FALSE, value |-> NoCredentials,
              error |-> Error("ValueError", PasswordRequired, "validate", 0)]
        ELSE IF username = <<>>
        THEN [ok |-> FALSE, value |-> NoCredentials,
              error |-> Error("ValueError", UsernameRequired, "validate", 0)]
        ELSE [ok |-> TRUE,
              value |-> [username |-> username, password |-> password],
              error |-> NoError]

\* validate_credentials without .strip() on the password
validate_credentials_unstripped_password(user_credentials) ==
    LET username == normalize_username(user_credentials.username)
        password == OrEmpty(user_credentials.password)
    IN  IF username = <<>>
        THEN [ok |-> FALSE, value |-> NoCredentials,
              error |-> Error("ValueError", UsernameRequired, "validate", 0)]
        ELSE IF password = <<>>
        THEN [ok |-> FALSE, value |-> NoCredentials,
              error |-> Error("ValueError", PasswordRequired, "validate", 0)]
        ELSE [ok |-> TRUE,
              value |-> [username |-> username, password |-> password],
              error |-> NoError]

validate_credentials(user_credentials) ==
    LET username == normalize_username(user_credentials.username)
        password == Strip(OrEmpty(user_credentials.password))
    IN  IF username = <<>>
        THEN [ok |-> FALSE, value |-> NoCredentials,
              error |-> Error("ValueError", UsernameRequired, "validate", 0)]
        ELSE IF password = <<>>
        THEN [ok |-> FALSE, value |-> NoCredentials,
              error |-> Error("ValueError", PasswordRequired, "validate", 0)]
        ELSE [ok |-> TRUE,
              value |-> [username |-> username, password |-> password],
              error |-> NoError]

\* ------------------------------------------------------------ environment
Runs == {1, 2}
\* values uuid4() may return
CorrelationIds == {"uuid-a", "uuid-b"}

\* what metrics.track_event does with one event: accept it, or raise (a
\* retryable type, a ValueError, or any other Exception)
SinkErrors == {"TimeoutError", "ValueError", "RuntimeError"}
SinkOutcomes == {"ok"} \cup SinkErrors
\* what auth.login_user does on one invocation: return an identity, or raise
VerifierErrors ==
    {"TimeoutError", "ConnectionError", "PermissionError", "ValueError",
     "RuntimeError"}
VerifierOutcomes == {"ok"} \cup VerifierErrors
Identity == [id |-> "u1"]
NoIdentity == [id |-> "None"]

\* str(error) of an exception raised outside this program
VerifierText == "<verifier exception text>"
SinkText == "<sink exception text>"
RawExceptionTexts == {VerifierText, SinkText}

TestUser == <<"t", "e", "s", "t", "_", "u", "s", "e", "r">>
SecurePassword ==
    <<"s", "e", "c", "u", "r", "e", "_", "p", "a", "s", "s", "w", "o", "r", "d">>
HardcodedCredentials == [username |-> Str(TestUser), password |-> Str(SecurePassword)]

\* user_credentials of a top-level run: the literal of main, and stand-ins
\* for an input source (missing, null, blank and padded fields)
RunCredentials ==
    {HardcodedCredentials,
     [username |-> Str(<<" ", "a", "B", "\t">>), password |-> Str(<<" ", "B", " ">>)],
     [username |-> Absent, password |-> Str(<<"a">>)],
     [username |-> Str(<<" ", "\t">>), password |-> None],
     [username |-> Str(<<"a">>), password |-> Str(<<" ">>)],
     [username |-> Str(<<"B">>), password |-> Absent]}

\* ------------------------------------------------------------------ state
VARIABLES
    raw,        \* raw[p]: user_credentials of run p
    cid,        \* cid[p]: correlation_id of run p ("" before uuid4())
    cleaned,    \* cleaned[p]: cleaned_credentials
    pc,         \* pc[p]: position of run p
    attempt,    \* attempt[p]: loop variable of login_with_retries
    start,      \* start[p]: time.time() at entry of login_with_retries
    user,       \* user[p]: identity returned by the verifier
    err,        \* err[p]: exception being handled or propagating
    lwr,        \* lwr[p]: how login_with_retries ended
    outcome,    \* outcome[p]: how main ended
    now,        \* the clock, in ms
    trace,      \* calls that left the program, in order
    arg,        \* argument of a direct call of a pure function
    ret         \* its result

vars ==
    <<raw, cid, cleaned, pc, attempt, start, user, err, lwr, outcome, now,
      trace, arg, ret>>

\* ----------------------------------------------------------- trace entries
Blank ==
    [kind |-> "none", run |-> 0, event_name |-> "absent", user_id |-> "None",
     correlation_id |-> "absent", keys |-> {}, attempt |-> -1,
     max_attempts |-> -1, duration_ms |-> -1, error_type |-> "absent",
     reason |-> "absent", result |-> "absent", ms |-> -1,
     credentials |-> NoCredentials, text |-> <<>>, time |-> 0]

\* The payload built by track_login_event and handed to track_event.
\* `extra` gives the keyword arguments, `keys` their names; `result` is what
\* the sink did with the event.
track_login_event(p, event_name, correlation_id, user_id, keys, extra, result) ==
    [Blank EXCEPT !.kind = "event", !.run = p, !.event_name = event_name,
                  !.user_id = user_id, !.correlation_id = correlation_id,
                  !.keys = keys,
                  !.attempt = IF "attempt" \in keys THEN extra.attempt ELSE -1,
                  !.max_attempts =
                      IF "max_attempts" \in keys THEN extra.max_attempts ELSE -1,
                  !.duration_ms =
                      IF "duration_ms" \in keys THEN extra.duration_ms ELSE -1,
                  !.error_type =
                      IF "error_type" \in keys THEN extra.error_type ELSE "absent",
                  !.reason = IF "reason" \in keys THEN extra.reason ELSE "absent",
                  !.result = result]

NoExtra ==
    [attempt |-> -1, max_attempts |-> -1, duration_ms |-> -1,
     error_type |-> "absent", reason |-> "absent"]

VerifyEntry(p, n, credentials, result) ==
    [Blank EXCEPT !.kind = "verify", !.run = p, !.attempt = n,
                  !.credentials = credentials, !.result = result]

SleepEntry(p, n, ms) ==
    [Blank EXCEPT !.kind = "sleep", !.run = p, !.attempt = n, !.ms = ms]

PrintEntry(p, text) == [Blank EXCEPT !.kind = "print", !.run = p, !.text = text]

\* entry e, made when the clock shows t
At(e, t) == [e EXCEPT !.time = t]

\* ------------------------------------------------------------ call results
NotEnded == [status |-> "none", user |-> NoIdentity, error |-> NoError]
Returned(u) == [status |-> "returned", user |-> u, error |-> NoError]
Raised(e) == [status |-> "raised", user |-> NoIdentity, error |-> e]

NoReturn ==
    [fn |-> "none", ok |-> FALSE, value |-> NoCredentials, error |-> NoError,
     first |-> NoCredentials]

\* ---------------------------------------------------------------- Init
InitRun ==
    /\ cid = [p \in Runs |-> ""]
    /\ cleaned = [p \in Runs |-> NoCredentials]
    /\ pc = [p \in Runs |-> "main"]
    /\ attempt = [p \in Runs |-> 0]
    /\ start = [p \in Runs |-> 0]
    /\ user = [p \in Runs |-> NoIdentity]
    /\ err = [p \in Runs |-> NoError]
    /\ lwr = [p \in Runs |-> NotEnded]
    /\ outcome = [p \in Runs |-> NotEnded]
    /\ now = 0
    /\ trace = <<>>

Init ==
    /\ raw \in [Runs -> RunCredentials]
    /\ raw[2] = HardcodedCredentials
    /\ InitRun
    /\ arg = HardcodedCredentials
    /\ ret = NoReturn

\* ------------------------------------------------------- control transfer
Goto(p, label) == pc' = [pc EXCEPT ![p] = label]

\* login_with_retries ends by raising e; main's try statement catches it
PropagateToMain(p, e) ==
    /\ Goto(p, "main_except")
    /\ err' = [err EXCEPT ![p] = e]
    /\ lwr' = [lwr EXCEPT ![p] = Raised(e)]

\* e is raised inside the try body of login_with_retries (lines 67-85)
RaiseInTry(p, e) ==
    IF IsRetryable(e)
    THEN /\ Goto(p, "handler")
         /\ err' = [err EXCEPT ![p] = e]
         /\ UNCHANGED lwr
    ELSE PropagateToMain(p, e)

\* for attempt in range(1, LOGIN_MAX_ATTEMPTS + 1): take value n, or fall
\* out of the loop onto line 103
LoopNext(p, n) ==
    IF n <= LOGIN_MAX_ATTEMPTS
    THEN /\ attempt' = [attempt EXCEPT ![p] = n]
         /\ Goto(p, "emit_attempt")
         /\ err' = [err EXCEPT ![p] = NoError]
         /\ UNCHANGED lwr
    ELSE /\ UNCHANGED attempt
         /\ PropagateToMain(
                p, Error("RuntimeError", "Login retry loop ended unexpectedly.",
                         "login_with_retries", attempt[p]))

\* int((time.time() - start) * 1000)
DurationMs(p) == now - start[p]

\* -------------------------------------------------------------- main
\* line 114
MainStart(p) ==
    /\ pc[p] = "main"
    /\ \E id \in CorrelationIds \ {cid[q] : q \in Runs} :
           cid' = [cid EXCEPT ![p] = id]
    /\ Goto(p, "validate")
    /\ UNCHANGED <<raw, cleaned, attempt, start, user, err, lwr, outcome, now,
                   trace, arg, ret>>

\* line 123
Validate(p) ==
    /\ pc[p] = "validate"
    /\ LET r == validate_credentials(raw[p])
       IN  IF r.ok
           THEN /\ cleaned' = [cleaned EXCEPT ![p] = r.value]
                /\ Goto(p, "login_start")
                /\ UNCHANGED err
           ELSE /\ err' = [err EXCEPT ![p] = r.error]
                /\ Goto(p, "main_except")
                /\ UNCHANGED cleaned
    /\ UNCHANGED <<raw, cid, attempt, start, user, lwr, outcome, now, trace,
                   arg, ret>>

\* ------------------------------------------------------ login_with_retries
\* login_with_retries with range(LOGIN_MAX_ATTEMPTS) as its loop
LoginStartFromZero(p) ==
    /\ pc[p] = "login_start"
    /\ start' = [start EXCEPT ![p] = now]
    /\ LoopNext(p, 0)
    /\ UNCHANGED <<raw, cid, cleaned, user, outcome, now, trace, arg, ret>>

\* lines 64-66
LoginStart(p) ==
    /\ pc[p] = "login_start"
    /\ start' = [start EXCEPT ![p] = now]
    /\ LoopNext(p, 1)
    /\ UNCHANGED <<raw, cid, cleaned, user, outcome, now, trace, arg, ret>>

\* lines 68-73
EmitAttempt(p) ==
    /\ pc[p] = "emit_attempt"
    /\ \E s \in SinkOutcomes :
         /\ trace' =
                Append(trace, At(
                       track_login_event(
                           p, "login_attempt", cid[p], "None",
                           {"attempt", "max_attempts"},
                           [NoExtra EXCEPT !.attempt = attempt[p],
                                           !.max_attempts = LOGIN_MAX_ATTEMPTS],
                           s), now))
         /\ IF s = "ok"
            THEN Goto(p, "verify") /\ UNCHANGED <<err, lwr>>
            ELSE RaiseInTry(p, Error(s, SinkText, "sink", attempt[p]))
    /\ UNCHANGED <<raw, cid, cleaned, attempt, start, user, outcome, now, arg,
                   ret>>

\* line 75
Verify(p) ==
    /\ pc[p] = "verify"
    /\ \E o \in VerifierOutcomes, latency \in 0..MaxLatencyMs :
         /\ now' = now + latency
         /\ trace' = Append(trace, At(VerifyEntry(p, attempt[p], cleaned[p], o), now'))
         /\ IF o = "ok"
            THEN /\ user' = [user EXCEPT ![p] = Identity]
                 /\ Goto(p, "emit_success")
                 /\ UNCHANGED <<err, lwr>>
            ELSE /\ RaiseInTry(p, Error(o, VerifierText, "verifier", attempt[p]))
                 /\ UNCHANGED user
    /\ UNCHANGED <<raw, cid, cleaned, attempt, start, outcome, arg, ret>>

\* lines 77-85
EmitSuccess(p) ==
    /\ pc[p] = "emit_success"
    /\ \E s \in SinkOutcomes :
         /\ trace' =
                Append(trace, At(
                       track_login_event(
                           p, "login_success", cid[p], user[p].id,
                           {"attempt", "duration_ms"},
                           [NoExtra EXCEPT !.attempt = attempt[p],
                                           !.duration_ms = DurationMs(p)],
                           s), now))
         /\ IF s = "ok"
            THEN /\ lwr' = [lwr EXCEPT ![p] = Returned(user[p])]
                 /\ Goto(p, "print_success")
                 /\ UNCHANGED err
            ELSE RaiseInTry(p, Error(s, SinkText, "sink", attempt[p]))
    /\ UNCHANGED <<raw, cid, cleaned, attempt, start, user, outcome, now, arg,
                   ret>>

\* lines 87-98: the handler on the last attempt
EmitError(p) ==
    /\ pc[p] = "handler"
    /\ attempt[p] = LOGIN_MAX_ATTEMPTS
    /\ \E s \in SinkOutcomes :
         /\ trace' =
                Append(trace, At(
                       track_login_event(
                           p, "login_error", cid[p], "None",
                           {"error_type", "attempt", "duration_ms"},
                           [NoExtra EXCEPT !.error_type = err[p].type,
                                           !.attempt = attempt[p],
                                           !.duration_ms = DurationMs(p)],
                           s), now))
         /\ IF s = "ok"
            THEN PropagateToMain(p, err[p])
            ELSE PropagateToMain(p, Error(s, SinkText, "sink", attempt[p]))
    /\ UNCHANGED <<raw, cid, cleaned, attempt, start, user, outcome, now, arg,
                   ret>>

\* lines 87-89, 100: the handler before the last attempt, then the loop
Sleep(p) ==
    /\ pc[p] = "handler"
    /\ attempt[p] # LOGIN_MAX_ATTEMPTS
    /\ \E over \in 0..MaxOversleepMs :
         now' = now + LOGIN_RETRY_BACKOFF_MS * attempt[p] + over
    /\ trace' =
           Append(trace,
                  At(SleepEntry(p, attempt[p], LOGIN_RETRY_BACKOFF_MS * attempt[p]),
                     now))
    /\ LoopNext(p, attempt[p] + 1)
    /\ UNCHANGED <<raw, cid, cleaned, start, user, outcome, arg, ret>>

\* ------------------------------------------------------------ main, end
\* line 128
PrintSuccess(p) ==
    /\ pc[p] = "print_success"
    /\ trace' =
           Append(trace,
                  At(PrintEntry(p, <<"User logged in successfully. user_id=",
                                     lwr[p].user.id>>), now))
    /\ outcome' = [outcome EXCEPT ![p] = Returned(lwr[p].user)]
    /\ Goto(p, "done")
    /\ UNCHANGED <<raw, cid, cleaned, attempt, start, user, err, lwr, now, arg,
                   ret>>

\* the ValueError handler of main without its track_login_event call
MainExceptValueErrorSilent(p) ==
    /\ pc[p] = "main_except"
    /\ err[p].type = "ValueError"
    /\ trace' = Append(trace, At(PrintEntry(p, <<"Login failed: ", err[p].msg>>), now))
    /\ outcome' = [outcome EXCEPT ![p] = Returned(NoIdentity)]
    /\ Goto(p, "done")
    /\ UNCHANGED <<raw, cid, cleaned, attempt, start, user, err, lwr, now, arg,
                   ret>>

\* lines 130-137
MainExceptValueError(p) ==
    /\ pc[p] = "main_except"
    /\ err[p].type = "ValueError"
    /\ \E s \in SinkOutcomes :
         LET event ==
                 At(track_login_event(
                        p, "login_failed", cid[p], "None", {"reason"},
                        [NoExtra EXCEPT !.reason = err[p].msg], s), now)
         IN  IF s = "ok"
             THEN /\ trace' =
                         trace \o
                         <<event, At(PrintEntry(p, <<"Login failed: ", err[p].msg>>), now)>>
                  /\ outcome' = [outcome EXCEPT ![p] = Returned(NoIdentity)]
             ELSE /\ trace' = Append(trace, event)
                  /\ outcome' =
                         [outcome EXCEPT
                              ![p] = Raised(Error(s, SinkText, "sink", attempt[p]))]
    /\ Goto(p, "done")
    /\ UNCHANGED <<raw, cid, cleaned, attempt, start, user, err, lwr, now, arg,
                   ret>>

\* lines 139-147
MainExceptException(p) ==
    /\ pc[p] = "main_except"
    /\ err[p].type # "ValueError"
    /\ \E s \in SinkOutcomes :
         LET event ==
                 At(track_login_event(
                        p, "login_error", cid[p], "None", {"error_type"},
                        [NoExtra EXCEPT !.error_type = err[p].type], s), now)
         IN  IF s = "ok"
             THEN /\ trace' =
                         trace \o
                         <<event, At(PrintEntry(p, <<"Unexpected error occurred.">>), now)>>
                  /\ outcome' = [outcome EXCEPT ![p] = Raised(err[p])]
             ELSE /\ trace' = Append(trace, event)
                  /\ outcome' =
                         [outcome EXCEPT
                              ![p] = Raised(Error(s, SinkText, "sink", attempt[p]))]
    /\ Goto(p, "done")
    /\ UNCHANGED <<raw, cid, cleaned, attempt, start, user, err, lwr, now, arg,
                   ret>>

Step(p) ==
    \/ MainStart(p)
    \/ Validate(p)
    \/ LoginStart(p)
    \/ EmitAttempt(p)
    \/ Verify(p)
    \/ EmitSuccess(p)
    \/ EmitError(p)
    \/ Sleep(p)
    \/ PrintSuccess(p)
    \/ MainExceptValueError(p)
    \/ MainExceptException(p)

\* one top-level run
Next == Step(1)

Spec == Init /\ [][Next]_vars

\* ------------------------------------------- direct calls of the validator
InitValidate ==
    /\ raw = [p \in Runs |-> HardcodedCredentials]
    /\ InitRun
    /\ arg \in RawCredentials
    /\ ret = NoReturn

CallNormalize ==
    /\ ret.fn = "none"
    /\ ret' = [NoReturn EXCEPT !.fn = "normalize_username", !.ok = TRUE,
                               !.value.username = normalize_username(arg.username)]
    /\ UNCHANGED <<raw, cid, cleaned, pc, attempt, start, user, err, lwr,
                   outcome, now, trace, arg>>

CallValidate ==
    /\ ret.fn = "none"
    /\ LET r == validate_credentials(arg)
       IN  ret' = [fn |-> "validate_credentials", ok |-> r.ok,
                   value |-> r.value, error |-> r.error,
                   first |-> NoCredentials]
    /\ UNCHANGED <<raw, cid, cleaned, pc, attempt, start, user, err, lwr,
                   outcome, now, trace, arg>>

\* the cleaned dict, passed as user_credentials
AsRaw(credentials) ==
    [username |-> Str(credentials.username), password |-> Str(credentials.password)]

\* validate_credentials applied to the dict a first call returned
CallValidateAgain ==
    /\ ret.fn = "validate_credentials"
    /\ ret.ok
    /\ LET r == validate_credentials(AsRaw(ret.value))
       IN  ret' = [fn |-> "validate_credentials_twice", ok |-> r.ok,
                   value |-> r.value, error |-> r.error, first |-> ret.value]
    /\ UNCHANGED <<raw, cid, cleaned, pc, attempt, start, user, err, lwr,
                   outcome, now, trace, arg>>

NextValidate == CallNormalize \/ CallValidate \/ CallValidateAgain

SpecValidate == InitValidate /\ [][NextValidate]_vars

\* ------------------------------------------------- concurrent top-level runs
\* longest trace explored when two runs share the sink
MaxConcurrentTrace == 10

ConcurrentCredentials ==
    {HardcodedCredentials, [username |-> Str(<<"B">>), password |-> Absent]}

InitConcurrent ==
    /\ raw \in [Runs -> ConcurrentCredentials]
    /\ InitRun
    /\ arg = HardcodedCredentials
    /\ ret = NoReturn

\* The environment explored when two runs interleave: the sink accepts or
\* times out, the verifier returns, times out or denies permission, and
\* only the requested sleeps take time.
ConcurrentEnvironment(e) ==
    /\ e.kind = "event" => e.result \in {"ok", "TimeoutError"}
    /\ e.kind = "verify" => e.result \in {"ok", "TimeoutError", "PermissionError"}

\* the runs are independent threads of control: any run may take the next
\* step; the sink (trace) and the clock are all they share
Interleaved(A(_), p) ==
    /\ Len(trace) < MaxConcurrentTrace
    /\ A(p)
    /\ \A i \in (Len(trace) + 1)..Len(trace') : ConcurrentEnvironment(trace'[i])
    /\ (now' - now) % LOGIN_RETRY_BACKOFF_MS = 0

NextConcurrent ==
    \E p \in Runs :
        \/ Interleaved(MainStart, p)
        \/ Interleaved(Validate, p)
        \/ Interleaved(LoginStart, p)
        \/ Interleaved(EmitAttempt, p)
        \/ Interleaved(Verify, p)
        \/ Interleaved(EmitSuccess, p)
        \/ Interleaved(EmitError, p)
        \/ Interleaved(Sleep, p)
        \/ Interleaved(PrintSuccess, p)
        \/ Interleaved(MainExceptValueError, p)
        \/ Interleaved(MainExceptException, p)

SpecConcurrent == InitConcurrent /\ [][NextConcurrent]_vars

\* ------------------------------------------------------ reading the trace
EntriesOf(p, kind) == SelectSeq(trace, LAMBDA e : e.run = p /\ e.kind = kind)
Events(p) == EntriesOf(p, "event")
EventNames(p) == [i \in 1..Len(Events(p)) |-> Events(p)[i].event_name]
EventsNamed(p, names) == SelectSeq(Events(p), LAMBDA e : e.event_name \in names)
\* what the verifier did on each invocation of run p, in order
VerifierResults(p) ==
    [i \in 1..Len(EntriesOf(p, "verify")) |-> EntriesOf(p, "verify")[i].result]
Sleeps(p) == EntriesOf(p, "sleep")
\* the sink has accepted every event of run p so far
SinkAccepted(p) == \A i \in 1..Len(Events(p)) : Events(p)[i].result = "ok"
AllTransient(results) ==
    \A i \in 1..Len(results) : results[i] \in LOGIN_RETRYABLE_ERRORS
TerminalFailureNames == {"login_failed", "login_error"}
\* main has ended without a logged-in user
EndedInFailure(p) == pc[p] = "done" /\ outcome[p] # Returned(Identity)

\* ------------------------------------------------------------------ C1
TwoTransientThenSuccess(p) ==
    /\ Len(VerifierResults(p)) = 3
    /\ AllTransient(SubSeq(VerifierResults(p), 1, 2))
    /\ VerifierResults(p)[3] = "ok"

\* C1: when the verifier has failed with a transient kind on attempts 1 and
\* 2 and returned an identity on attempt 3, the call of login_with_retries
\* ends by returning that identity, having emitted exactly three
\* login_attempt events and then one login_success event, all with the
\* run's correlation id.
C1_TwoTransientThenSuccess ==
    \A p \in Runs :
        (TwoTransientThenSuccess(p) /\ lwr[p].status # "none") =>
            /\ EventNames(p) =
                   <<"login_attempt", "login_attempt", "login_attempt",
                     "login_success">>
            /\ \A i \in 1..Len(Events(p)) : Events(p)[i].correlation_id = cid[p]
            /\ lwr[p] = Returned(Identity)

\* The same statement for the calls in which the sink accepts every event.
C1_WithAcceptingSink ==
    \A p \in Runs :
        SinkAccepted(p) =>
            /\ (VerifierResults(p) # <<>> /\ AllTransient(VerifierResults(p))
                /\ Len(VerifierResults(p)) < LOGIN_MAX_ATTEMPTS)
                   => lwr[p].status = "none"
            /\ TwoTransientThenSuccess(p) =>
                   IF pc[p] = "emit_success"
                   THEN lwr[p].status = "none"
                   ELSE /\ EventNames(p) =
                               <<"login_attempt", "login_attempt",
                                 "login_attempt", "login_success">>
                        /\ \A i \in 1..Len(Events(p)) :
                               Events(p)[i].correlation_id = cid[p]
                        /\ lwr[p] = Returned(Identity)

C1_Reached ==
    /\ VerifierResults(1) = <<"TimeoutError", "ConnectionError", "ok">>
    /\ SinkAccepted(1)
    /\ lwr[1] = Returned(Identity)

\* ------------------------------------------------------------------ C2
\* C2: when the verifier has failed with a transient kind on every
\* invocation, the call of login_with_retries ends only after three
\* invocations, by raising the failure of the third, having emitted
\* exactly three login_attempt events and then one login_error event; the
\* verifier is never invoked a fourth time and no fourth login_attempt
\* event is emitted.
C2_AlwaysTransient ==
    \A p \in Runs :
        /\ Len(VerifierResults(p)) <= LOGIN_MAX_ATTEMPTS
        /\ Len(EventsNamed(p, {"login_attempt"})) <= LOGIN_MAX_ATTEMPTS
        /\ (/\ VerifierResults(p) # <<>>
            /\ AllTransient(VerifierResults(p))
            /\ pc[p] = "main_except") =>
               /\ EventNames(p) =
                      <<"login_attempt", "login_attempt", "login_attempt",
                        "login_error">>
               /\ Len(VerifierResults(p)) = 3
               /\ lwr[p] =
                      Raised(Error(VerifierResults(p)[3], VerifierText, "verifier", 3))

\* The same statement for the calls in which the sink accepts every event.
C2_WithAcceptingSink ==
    \A p \in Runs :
        (SinkAccepted(p) /\ VerifierResults(p) # <<>>
         /\ AllTransient(VerifierResults(p))) =>
            /\ Len(VerifierResults(p)) < LOGIN_MAX_ATTEMPTS => lwr[p].status = "none"
            /\ pc[p] = "main_except" =>
                   /\ EventNames(p) =
                          <<"login_attempt", "login_attempt", "login_attempt",
                            "login_error">>
                   /\ Len(VerifierResults(p)) = 3
                   /\ lwr[p] =
                          Raised(Error(VerifierResults(p)[3], VerifierText,
                                       "verifier", 3))

C2_Reached ==
    /\ VerifierResults(1) = <<"TimeoutError", "TimeoutError", "TimeoutError">>
    /\ SinkAccepted(1)
    /\ pc[1] = "main_except"

\* ------------------------------------------------------------------ C3
TerminalEvents(p) ==
    SelectSeq(Events(p),
              LAMBDA e : /\ e.event_name \in TerminalFailureNames
                         /\ e.correlation_id = cid[p])

\* C3: a top-level run that has ended in a terminal failure has emitted
\* exactly one login_failed or login_error event with its correlation id.
\* Stated for the runs in which the sink accepts every event.
C3_ExactlyOneTerminalEvent ==
    \A p \in Runs :
        (EndedInFailure(p) /\ SinkAccepted(p)) => Len(TerminalEvents(p)) = 1

\* What the code does instead: one event, or two after exhausted retries.
C3_OneOrTwoTerminalEvents ==
    \A p \in Runs :
        EndedInFailure(p) =>
            /\ Len(TerminalEvents(p)) \in {1, 2}
            /\ (SinkAccepted(p) /\ Len(TerminalEvents(p)) = 2) =>
                   /\ Len(VerifierResults(p)) + Len(Sleeps(p)) >= LOGIN_MAX_ATTEMPTS
                   /\ lwr[p].status = "raised"
                   /\ IsRetryable(lwr[p].error)

\* ------------------------------------------------------------------ C4
PermissionDeniedOnce(p) ==
    /\ VerifierResults(p) = <<"PermissionError">>
    /\ SinkAccepted(p)
    /\ pc[p] = "done"

\* the part of C4 about retrying: one login_attempt, no retry, no sleep
C4_NoRetry ==
    \A p \in Runs :
        (Len(VerifierResults(p)) >= 1 /\ VerifierResults(p)[1] = "PermissionError"
         /\ SinkAccepted(p)) =>
            /\ Len(VerifierResults(p)) = 1
            /\ Len(EventsNamed(p, {"login_attempt"})) = 1
            /\ Sleeps(p) = <<>>
            /\ lwr[p] = Raised(Error("PermissionError", VerifierText, "verifier", 1))

\* the part of C4 about the classification carried by the terminal event
C4_Classified ==
    \A p \in Runs :
        PermissionDeniedOnce(p) =>
            \E i \in 1..Len(TerminalEvents(p)) :
                \/ TerminalEvents(p)[i].error_type = "INVALID_CREDENTIALS"
                \/ TerminalEvents(p)[i].reason = "INVALID_CREDENTIALS"

\* C4: after one permission-denied failure of the verifier on attempt 1
\* there is exactly one login_attempt event, no retry and no sleep, and the
\* event emitted for the terminal failure classifies it as
\* INVALID_CREDENTIALS.
C4_PermissionDenied == C4_NoRetry /\ C4_Classified

\* ------------------------------------------------------------------ C5
\* C5: a failure raised by the sink never leaves the emitter: no exception
\* that originated in the sink is handled by, or propagates out of,
\* login_with_retries or main, and a run whose last verifier invocation
\* returned an identity ends with that identity.
C5_SinkFailureContained ==
    \A p \in Runs :
        /\ err[p].origin # "sink"
        /\ lwr[p].error.origin # "sink"
        /\ outcome[p].error.origin # "sink"
        /\ (/\ pc[p] = "done"
            /\ VerifierResults(p) # <<>>
            /\ VerifierResults(p)[Len(VerifierResults(p))] = "ok") =>
               outcome[p] = Returned(Identity)

\* ------------------------------------------------------------------ C6
\* C6: no event handed to the sink carries the raw text of an exception
\* raised outside the program (a password can reach an event only through
\* such a text: no payload field is filled from the credentials).  Stated
\* for the runs in which the sink accepts every event.
C6_NoRawExceptionText ==
    \A p \in Runs :
        SinkAccepted(p) =>
            \A i \in 1..Len(Events(p)) :
                /\ Events(p)[i].reason \notin RawExceptionTexts
                /\ Events(p)[i].error_type \notin RawExceptionTexts

\* ------------------------------------------------------------------ C7
\* a raw field that is missing, null, empty or whitespace only
IsBlank(v) == v.kind # "str" \/ \A i \in 1..Len(v.s) : v.s[i] \in Whitespace
FailsValidation(p) == IsBlank(raw[p].username) \/ IsBlank(raw[p].password)

\* C7: the correlation id exists before validation starts; a run whose
\* credentials fail validation never emits login_attempt, never invokes the
\* verifier, never sleeps and never enters login_with_retries, and when it
\* has ended it has emitted exactly one event, login_failed, with the run's
\* correlation id.
C7_ValidationFailure ==
    \A p \in Runs :
        /\ pc[p] # "main" => cid[p] \in CorrelationIds
        /\ FailsValidation(p) =>
               /\ pc[p] \in {"main", "validate", "main_except", "done"}
               /\ VerifierResults(p) = <<>>
               /\ Sleeps(p) = <<>>
               /\ EventsNamed(p, {"login_attempt"}) = <<>>
               /\ pc[p] # "done" => Events(p) = <<>>
               /\ pc[p] = "done" =>
                      /\ EventNames(p) = <<"login_failed">>
                      /\ Events(p)[1].correlation_id = cid[p]

C7_Reached ==
    /\ pc[1] = "done"
    /\ IsBlank(raw[1].password)
    /\ ~IsBlank(raw[1].username)
    /\ EventNames(1) = <<"login_failed">>
    /\ Events(1)[1].correlation_id = cid[1]
    /\ cid[1] = "uuid-b"

\* ------------------------------------------------------------------ C8
\* C8: validate_credentials fails with the missing-username error whenever
\* the username is missing, null, empty or whitespace only, whatever the
\* password is; normalize_username gives the empty string for these.
C8_MissingUsername ==
    IsBlank(arg.username) =>
        /\ ret.fn = "validate_credentials" =>
               /\ ~ret.ok
               /\ ret.error.type = "ValueError"
               /\ ret.error.msg = UsernameRequired
        /\ ret.fn = "normalize_username" => ret.value.username = <<>>

C8_Reached ==
    /\ ret.fn = "validate_credentials"
    /\ arg.username = Str(<<" ", "\t">>)
    /\ arg.password = None
    /\ ret.error.msg = UsernameRequired

\* ------------------------------------------------------------------ C9
\* C9: validate_credentials fails with the missing-password error whenever
\* the username has a non-whitespace character and the password is missing,
\* null, empty or whitespace only; it succeeds only when neither field is
\* blank.
C9_MissingPassword ==
    ret.fn = "validate_credentials" =>
        /\ (~IsBlank(arg.username) /\ IsBlank(arg.password)) =>
               /\ ~ret.ok
               /\ ret.error.type = "ValueError"
               /\ ret.error.msg = PasswordRequired
        /\ ret.ok => (~IsBlank(arg.username) /\ ~IsBlank(arg.password))

C9_Reached ==
    /\ ret.fn = "validate_credentials"
    /\ arg.username = Str(<<" ", "B">>)
    /\ arg.password = Str(<<"\t", " ">>)
    /\ ret.error.msg = PasswordRequired

\* ------------------------------------------------------------------ C10
RunTrace(p) == SelectSeq(trace, LAMBDA e : e.run = p)
IsTransientFailure(e) == e.kind = "verify" /\ e.result \in LOGIN_RETRYABLE_ERRORS
IsLoginAttempt(e, n) ==
    e.kind = "event" /\ e.event_name = "login_attempt" /\ e.attempt = n

\* a transient failure of the verifier at attempt n < max_attempts is
\* followed at once by a sleep of backoff * n, and that sleep by the
\* login_attempt event of attempt n + 1, emitted no earlier than the end of
\* the sleep
BackoffAfterTransient(T) ==
    \A i \in 1..Len(T) :
        /\ (IsTransientFailure(T[i]) /\ T[i].attempt < LOGIN_MAX_ATTEMPTS
            /\ i < Len(T)) =>
               /\ T[i + 1].kind = "sleep"
               /\ T[i + 1].ms = LOGIN_RETRY_BACKOFF_MS * T[i].attempt
        /\ (T[i].kind = "sleep" /\ i < Len(T)) =>
               /\ IsLoginAttempt(T[i + 1], T[i].attempt + 1)
               /\ T[i + 1].time >= T[i].time + T[i].ms
        /\ T[i].kind = "sleep" =>
               T[i].ms = LOGIN_RETRY_BACKOFF_MS * T[i].attempt

\* no sleep before attempt 1, after a success, after a non-transient
\* failure or after the final attempt
NoOtherSleep(T) ==
    \A i \in 1..Len(T) :
        T[i].kind = "sleep" =>
            /\ \E j \in 1..(i - 1) : IsLoginAttempt(T[j], 1)
            /\ T[i].attempt < LOGIN_MAX_ATTEMPTS
            /\ \A j \in 1..(i - 1) :
                   T[j].kind = "verify" => T[j].result \in LOGIN_RETRYABLE_ERRORS

\* C10: after a transient failure of the verifier at attempt n <
\* max_attempts a sleep of backoff_base * n (250 ms, 500 ms) elapses before
\* the login_attempt event of attempt n + 1 and the next invocation of the
\* verifier; there is no sleep before attempt 1, after a success, after a
\* non-transient failure or after the final attempt.
C10_Backoff ==
    \A p \in Runs : BackoffAfterTransient(RunTrace(p)) /\ NoOtherSleep(RunTrace(p))

\* The same statement for the runs in which the sink accepts every event,
\* where moreover every sleep directly follows a transient failure of the
\* verifier.
C10_WithAcceptingSink ==
    \A p \in Runs :
        SinkAccepted(p) =>
            /\ BackoffAfterTransient(RunTrace(p))
            /\ NoOtherSleep(RunTrace(p))
            /\ \A i \in 1..Len(RunTrace(p)) :
                   RunTrace(p)[i].kind = "sleep" =>
                       /\ i > 1
                       /\ IsTransientFailure(RunTrace(p)[i - 1])
                       /\ RunTrace(p)[i - 1].attempt = RunTrace(p)[i].attempt

C10_Reached ==
    /\ Len(Sleeps(1)) = 2
    /\ Sleeps(1)[1].ms = 250
    /\ Sleeps(1)[2].ms = 500
    /\ SinkAccepted(1)
    /\ Len(VerifierResults(1)) = 3

\* ------------------------------------------------------------------ C11
\* the events the sink was handed with correlation id c, in sink order
EventsOfId(c) ==
    SelectSeq(trace, LAMBDA e : e.kind = "event" /\ e.correlation_id = c)

\* login_attempt events are numbered 1, 2, ... in order, and no
\* login_attempt event follows a login_success, login_error or login_failed
\* event
InEmissionOrder(E) ==
    /\ LET A == SelectSeq(E, LAMBDA e : e.event_name = "login_attempt")
       IN  \A i \in 1..Len(A) : A[i].attempt = i
    /\ \A i \in 1..Len(E) :
           E[i].event_name # "login_attempt" =>
               \A j \in (i + 1)..Len(E) : E[j].event_name # "login_attempt"

\* C11: when runs with distinct correlation ids share the sink, under
\* every interleaving the events of one correlation id are in emission
\* order: login_attempt events numbered 1, 2, ... and every login_success,
\* login_error or login_failed event after all login_attempt events of
\* that id.
C11_EmissionOrder == \A c \in CorrelationIds : InEmissionOrder(EventsOfId(c))

\* The same statement for the runs in which the sink accepts every event;
\* the events of one correlation id are those of one run.
C11_WithAcceptingSink ==
    /\ \A p, q \in Runs : (p # q /\ cid[p] # "") => cid[p] # cid[q]
    /\ \A p \in Runs :
           /\ cid[p] # "" => EventsOfId(cid[p]) = Events(p)
           /\ SinkAccepted(p) => InEmissionOrder(Events(p))

\* local state of run p
Local(p) ==
    <<raw[p], cid[p], cleaned[p], pc[p], attempt[p], start[p], user[p], err[p],
      lwr[p], outcome[p]>>

\* A step of one run leaves the state and the trace of every other run as
\* they are: the runs share the sink and the clock only.
C11_Independent ==
    [][\A p \in Runs :
           pc'[p] = pc[p] => (Local(p)' = Local(p) /\ RunTrace(p)' = RunTrace(p))]_vars

C11_Reached ==
    /\ Len(Events(1)) >= 2
    /\ Len(Events(2)) >= 2
    /\ \E i, j, k \in 1..Len(trace) :
           /\ i < j /\ j < k
           /\ trace[i].run = 1 /\ trace[j].run = 2 /\ trace[k].run = 1
           /\ trace[i].kind = "event" /\ trace[j].kind = "event"
           /\ trace[k].kind = "event"

\* ------------------------------------------------------------------ C12
\* C12: validate_credentials applied to the output of a successful call
\* succeeds and returns a dict identical to that output.
C12_Idempotent ==
    /\ ret.fn = "validate_credentials_twice" =>
           /\ ret.ok
           /\ ret.error = NoError
           /\ ret.value = ret.first
    /\ ret.fn = "validate_credentials" =>
           (ret.ok <=> ~(IsBlank(arg.username) \/ IsBlank(arg.password)))

C12_Reached ==
    /\ ret.fn = "validate_credentials_twice"
    /\ arg.username = Str(<<" ", "B">>)
    /\ arg.password = Str(<<"a", "\t">>)
    /\ ret.value = [username |-> <<"b">>, password |-> <<"a">>]

\* ------------------------------------------------------------------ C13
IsNonTransientFailure(e) ==
    e.kind = "verify" /\ e.result \notin LOGIN_RETRYABLE_ERRORS \cup {"ok"}

\* C13: a non-transient failure of the verifier at any attempt ends the
\* call of login_with_retries at once: afterwards the run emits no
\* login_attempt event, does not invoke the verifier and does not sleep,
\* and the call has raised that very failure.
C13_NonTransientEndsCall ==
    \A p \in Runs :
        \A i \in 1..Len(RunTrace(p)) :
            IsNonTransientFailure(RunTrace(p)[i]) =>
                /\ \A j \in (i + 1)..Len(RunTrace(p)) :
                       /\ RunTrace(p)[j].kind \notin {"verify", "sleep"}
                       /\ RunTrace(p)[j].event_name # "login_attempt"
                /\ lwr[p] =
                       Raised(Error(RunTrace(p)[i].result, VerifierText, "verifier",
                                    RunTrace(p)[i].attempt))
                /\ attempt[p] = RunTrace(p)[i].attempt
                /\ pc[p] \in {"main_except", "done"}

C13_Reached ==
    /\ VerifierResults(1) = <<"TimeoutError", "PermissionError">>
    /\ lwr[1] = Raised(Error("PermissionError", VerifierText, "verifier", 2))
    /\ Len(Sleeps(1)) = 1
    /\ pc[1] = "done"

\* ------------------------------------------------------------------ C14
\* the login_error events of login_with_retries (those of main carry no
\* attempt number)
ExhaustedEvents(p) ==
    SelectSeq(Events(p),
              LAMBDA e : e.event_name = "login_error" /\ "attempt" \in e.keys)
LastVerify(p) == EntriesOf(p, "verify")[Len(EntriesOf(p, "verify"))]

\* what C14 says of a call that has emitted its login_error event
LastFailureRaised(p) ==
    /\ Len(ExhaustedEvents(p)) = 1
    /\ ExhaustedEvents(p)[1].attempt = LOGIN_MAX_ATTEMPTS
    /\ EntriesOf(p, "verify") # <<>>
    /\ LastVerify(p).attempt = LOGIN_MAX_ATTEMPTS
    /\ IsTransientFailure(LastVerify(p))
    /\ ExhaustedEvents(p)[1].error_type = LastVerify(p).result
    /\ lwr[p] =
           Raised(Error(LastVerify(p).result, VerifierText, "verifier",
                        LOGIN_MAX_ATTEMPTS))

\* C14: when the attempt budget is exhausted by transient failures, the
\* call raises exactly the failure the verifier raised on attempt
\* max_attempts, and the login_error event emitted just before carries
\* attempt = max_attempts and the kind of that failure.
C14_LastFailureUnchanged ==
    \A p \in Runs : ExhaustedEvents(p) # <<>> => LastFailureRaised(p)

\* The same statement for the runs in which the sink accepts every event.
C14_WithAcceptingSink ==
    \A p \in Runs :
        (SinkAccepted(p) /\ ExhaustedEvents(p) # <<>>) => LastFailureRaised(p)

C14_Reached ==
    /\ VerifierResults(1) = <<"TimeoutError", "TimeoutError", "ConnectionError">>
    /\ SinkAccepted(1)
    /\ LastFailureRaised(1)

\* ------------------------------------------------------------------ C15
InCall(p) == pc[p] \in {"emit_attempt", "verify", "emit_success", "handler"}
LoginAttempts(p) == EventsNamed(p, {"login_attempt"})

\* C15: during a call of login_with_retries the attempt counter is in
\* 1..max_attempts; the login_attempt events emitted so far are numbered
\* 1, 2, ..., k with k <= max_attempts and carry max_attempts; every
\* invocation of the verifier comes directly after the login_attempt event
\* of the same number, so there are at most k invocations.
C15_AttemptCounter ==
    \A p \in Runs :
        /\ InCall(p) => attempt[p] \in 1..LOGIN_MAX_ATTEMPTS
        /\ Len(LoginAttempts(p)) <= LOGIN_MAX_ATTEMPTS
        /\ \A i \in 1..Len(LoginAttempts(p)) :
               /\ LoginAttempts(p)[i].attempt = i
               /\ LoginAttempts(p)[i].max_attempts = LOGIN_MAX_ATTEMPTS
        /\ InCall(p) =>
               Len(LoginAttempts(p)) =
                   IF pc[p] = "emit_attempt" THEN attempt[p] - 1 ELSE attempt[p]
        /\ \A i \in 1..Len(RunTrace(p)) :
               RunTrace(p)[i].kind = "verify" =>
                   /\ i > 1
                   /\ IsLoginAttempt(RunTrace(p)[i - 1], RunTrace(p)[i].attempt)
        /\ Len(EntriesOf(p, "verify")) <= Len(LoginAttempts(p))

C15_Reached ==
    /\ Len(LoginAttempts(1)) = LOGIN_MAX_ATTEMPTS
    /\ Len(EntriesOf(1, "verify")) = 2
    /\ pc[1] = "verify"
    /\ attempt[1] = LOGIN_MAX_ATTEMPTS

\* ------------------------------------------------------------------ C16
RECURSIVE SumMs(_)
SumMs(S) == IF S = <<>> THEN 0 ELSE Head(S).ms + SumMs(Tail(S))

\* the backoff sleeps of run p that precede its attempt n
SleepsBefore(p, n) == SelectSeq(Sleeps(p), LAMBDA s : s.attempt < n)

\* an event that reports the elapsed duration, at least the sleeps so far
ReportsDuration(p, e) ==
    /\ "duration_ms" \in e.keys
    /\ "attempt" \in e.keys
    /\ e.duration_ms >= SumMs(SleepsBefore(p, e.attempt))

\* C16: a run that has ended after invoking the verifier has emitted an
\* event for its terminal outcome (login_success, or login_error /
\* login_failed) that reports the total elapsed duration, at least the sum
\* of the backoff sleeps.  Stated for the runs in which the sink accepts
\* every event.
C16_DurationReported ==
    \A p \in Runs :
        (pc[p] = "done" /\ SinkAccepted(p) /\ EntriesOf(p, "verify") # <<>>) =>
            \E i \in 1..Len(Events(p)) :
                /\ Events(p)[i].event_name \in
                       {"login_success"} \cup TerminalFailureNames
                /\ ReportsDuration(p, Events(p)[i])

\* What the code does: login_success and the login_error of exhausted
\* retries report the duration; the event main emits for a failure does not.
C16_DurationOnlyInsideCall ==
    \A p \in Runs :
        \A i \in 1..Len(Events(p)) :
            LET e == Events(p)[i]
            IN  /\ (e.event_name \in {"login_success", "login_error"}
                        /\ "attempt" \in e.keys) =>
                       ReportsDuration(p, e)
                /\ "attempt" \notin e.keys => "duration_ms" \notin e.keys

\* ------------------------------------------------------------------ C17
IsTrimmed(s) == Strip(s) = s
IsLowercase(s) == Lower(s) = s

\* C17: at top level every invocation of the verifier happens in a run
\* whose credentials pass validate_credentials, and receives the validated
\* credentials: a username that is non-empty, trimmed and lowercase and a
\* password that is non-empty and trimmed.
C17_VerifierGetsValidated ==
    \A p \in Runs :
        \A i \in 1..Len(EntriesOf(p, "verify")) :
            LET c == EntriesOf(p, "verify")[i].credentials
            IN  /\ pc[p] \notin {"main", "validate", "login_start"}
                /\ ~FailsValidation(p)
                /\ c.username # <<>>
                /\ IsTrimmed(c.username)
                /\ IsLowercase(c.username)
                /\ c.password # <<>>
                /\ IsTrimmed(c.password)
                /\ c.username = Lower(Strip(OrEmpty(raw[p].username)))
                /\ c.password = Strip(OrEmpty(raw[p].password))

\* the verifier has been invoked in a run whose raw username was padded and
\* in mixed case and whose raw password was padded
C17_Reached ==
    /\ EntriesOf(1, "verify") # <<>>
    /\ raw[1].username = Str(<<" ", "a", "B", "\t">>)
    /\ raw[1].password = Str(<<" ", "B", " ">>)
    /\ EntriesOf(1, "verify")[1].credentials =
           [username |-> <<"a", "b">>, password |-> <<"B">>]

\* ------------------------------------------------------------------ C18
\* the run executes its next statement; every call of the verifier, the
\* sink and time.sleep comes back
SpecFair == Spec /\ WF_vars(Next)

CallEnded(p) == lwr[p].status # "none"
ReachedLine103(p) == lwr[p].error.origin = "login_with_retries"

\* C18: a call of login_with_retries invokes the verifier at most
\* max_attempts times and ends either by returning an identity or by
\* raising the verifier's failure; the raise after the loop ('Login retry
\* loop ended unexpectedly.') is never reached.
C18_EndsWithinBudget ==
    \A p \in Runs :
        /\ Len(EntriesOf(p, "verify")) <= LOGIN_MAX_ATTEMPTS
        /\ ~ReachedLine103(p)
        /\ CallEnded(p) =>
               \/ /\ lwr[p].status = "returned"
                  /\ lwr[p].user = Identity
                  /\ LastVerify(p).result = "ok"
               \/ /\ lwr[p].status = "raised"
                  /\ lwr[p].error.origin = "verifier"

\* the same for the runs in which the sink accepts every event
C18_WithAcceptingSink ==
    \A p \in Runs :
        SinkAccepted(p) =>
            /\ Len(EntriesOf(p, "verify")) <= LOGIN_MAX_ATTEMPTS
            /\ ~ReachedLine103(p)
            /\ CallEnded(p) =>
                   \/ /\ lwr[p].status = "returned"
                      /\ lwr[p].user = Identity
                      /\ LastVerify(p).result = "ok"
                   \/ /\ lwr[p].status = "raised"
                      /\ lwr[p].error.origin = "verifier"

\* whatever the sink does: the budget holds and line 103 is not reached
C18_BudgetAndLine103 ==
    \A p \in Runs :
        /\ Len(EntriesOf(p, "verify")) <= LOGIN_MAX_ATTEMPTS
        /\ ~ReachedLine103(p)

\* every call that starts ends (under SpecFair)
C18_Terminates == (pc[1] = "login_start") ~> CallEnded(1)

\* ------------------------------------------------------------------ C19
IsVerify(e) == e.kind = "verify"
IsIdentityReturned(e) == e.kind = "verify" /\ e.result = "ok"
IsAnyLoginAttempt(e) == e.kind = "event" /\ e.event_name = "login_attempt"

\* in T nothing after the verifier's success is a verifier invocation or a
\* login_attempt event
NothingAfterIdentity(T) ==
    \A i, j \in 1..Len(T) :
        (i < j /\ IsIdentityReturned(T[i])) =>
            ~IsVerify(T[j]) /\ ~IsAnyLoginAttempt(T[j])

\* C19: within one call, once the verifier has returned an identity the
\* verifier is not invoked again and no further login_attempt event is
\* emitted, also when the sink raises on the login_success event.
C19_NoInvocationAfterIdentity == \A p \in Runs : NothingAfterIdentity(RunTrace(p))

\* the same for the runs in which the sink accepts every event
C19_WithAcceptingSink ==
    \A p \in Runs : SinkAccepted(p) => NothingAfterIdentity(RunTrace(p))

\* a sink failure on login_success that is not retryable ends the call: the
\* verifier is invoked again only after a retryable one
C19_OnlyAfterRetryableSinkFailure ==
    \A p \in Runs :
        \A i, j \in 1..Len(RunTrace(p)) :
            (i < j /\ IsIdentityReturned(RunTrace(p)[i])
                 /\ IsVerify(RunTrace(p)[j])) =>
                /\ i + 1 < j
                /\ RunTrace(p)[i + 1].kind = "event"
                /\ RunTrace(p)[i + 1].event_name = "login_success"
                /\ RunTrace(p)[i + 1].result \in LOGIN_RETRYABLE_ERRORS

\* ------------------------------------------------------------------ C20
TerminalNames == {"login_success"} \cup TerminalFailureNames
HasEvent(E, names) == \E i \in 1..Len(E) : E[i].event_name \in names

\* E holds no login_success together with a login_failed or login_error,
\* and no login_attempt after any of the three
ExclusiveOutcomes(E) ==
    /\ ~(HasEvent(E, {"login_success"}) /\ HasEvent(E, TerminalFailureNames))
    /\ \A i, j \in 1..Len(E) :
           (i < j /\ E[i].event_name \in TerminalNames) =>
               E[j].event_name # "login_attempt"

\* C20: for one correlation id the event trail never holds both a
\* login_success and a login_failed or login_error event, and no
\* login_attempt event follows a login_success, login_failed or login_error
\* event with that correlation id.
C20_ExclusiveOutcomes == \A c \in CorrelationIds : ExclusiveOutcomes(EventsOfId(c))

\* the same for the runs in which the sink accepts every event
C20_WithAcceptingSink ==
    \A p \in Runs :
        SinkAccepted(p) => ExclusiveOutcomes(EventsOfId(cid[p]))
====
